---- MODULE Spec2Model ----
(***************************************************************************)
(* Model of src/algo.py: the energy-aware EDF scheduler of SchedulerUI.    *)
(*                                                                         *)
(* schedule_tasks is modelled one loop iteration per action, so that the   *)
(* properties of a single slice, of an idle jump and of the final report   *)
(* can be stated on the steps of a run.  Python floats are modelled as     *)
(* exact rationals <<numerator, denominator>> in lowest terms: rounding of *)
(* IEEE doubles is outside the model.                                      *)
(***************************************************************************)
EXTENDS Integers, Sequences, FiniteSets, TLC

VARIABLES
    tasks,        \* self.tasks: the registry, a sequence of Task records
    tasks_listbox,\* self.tasks_listbox: the rows of the list widget
    task_counter, \* self.task_counter: the id of the next task
    tasks_copy,   \* tasks_copy: the run's deep copy of the registry
    schedule,     \* self.schedule: sequence of ScheduleEntry records
    t,            \* the simulation clock of the run
    E,            \* the energy accumulated by the run
    result,       \* first line of the report: "none", "completed", "missed"
    pc,           \* "idle": no run yet, "loop": inside the while, "done"
    message,      \* title of the message box the latest handler call showed,
                  \* "none" when it showed none
    previous_run, \* history variable: <<schedule, E>> of the run before this
                  \* one, recorded by RerunSpec alone; <<>> before a second run
    sim_window    \* the simulation window of run_simulation: the controller
                  \* and the locals its callbacks close over

vars == <<tasks, tasks_listbox, task_counter, tasks_copy, schedule, t, E, result,
          pc, message, previous_run, sim_window>>

\* the state of a run and of its report
run == <<tasks_copy, schedule, t, E, result, pc, previous_run>>

\* the registry, its widget and its counter
registry == <<tasks, tasks_listbox, task_counter>>

---------------------------------------------------------------------------
(* Exact rational arithmetic standing for Python's float operators.  The   *)
(* arithmetic is written as functions, which take their arguments by       *)
(* value; the operators over them keep the call sites readable.            *)

Rat == Int \X Int

GCD[a \in Nat, b \in Nat] == IF b = 0 THEN a ELSE GCD[b, a % b]

Abs(a) == IF a < 0 THEN -a ELSE a

Normal[n \in Int, d \in Int] ==
    LET g == GCD[Abs(n), Abs(d)]
        s == IF d < 0 THEN -1 ELSE 1
    IN  <<(s * n) \div g, (s * d) \div g>>

RatAdd[x \in Rat, y \in Rat] == Normal[x[1] * y[2] + y[1] * x[2], x[2] * y[2]]
RatSub[x \in Rat, y \in Rat] == Normal[x[1] * y[2] - y[1] * x[2], x[2] * y[2]]
RatMul[x \in Rat, y \in Rat] == Normal[x[1] * y[1], x[2] * y[2]]
RatDiv[x \in Rat, y \in Rat] == Normal[x[1] * y[2], x[2] * y[1]]
RatLt[x \in Rat, y \in Rat] == x[1] * y[2] < y[1] * x[2]
RatLe[x \in Rat, y \in Rat] == x[1] * y[2] <= y[1] * x[2]
RatPow[x \in Rat, k \in Nat] == IF k = 0 THEN <<1, 1>> ELSE RatMul[x, RatPow[x, k - 1]]

\* the float with value n/d, d # 0
Q(n, d) == Normal[n, d]

RAdd(x, y) == RatAdd[x, y]
RSub(x, y) == RatSub[x, y]
RMul(x, y) == RatMul[x, y]
RDiv(x, y) == RatDiv[x, y]
RLt(x, y) == RatLt[x, y]
RLe(x, y) == RatLe[x, y]
RMin(x, y) == IF RatLe[x, y] THEN x ELSE y
RMax(x, y) == IF RatLe[y, x] THEN x ELSE y
RPow(x, k) == RatPow[x, k]

Zero == Q(0, 1)

---------------------------------------------------------------------------
(* Processor parameters and literals of schedule_tasks.                    *)

f_min_num == 1
f_max_num == 4
alpha == 2
dt_num == 1
Horizon == 1000
EpsDen == 1000000

f_min == Q(f_min_num, 1)
f_max == Q(f_max_num, 1)
dt == Q(dt_num, 1)
horizon == Q(Horizon, 1)
Eps == Q(1, EpsDen)

---------------------------------------------------------------------------
(* Task and ScheduleEntry objects.                                         *)

Task(task_id, release_time, deadline, workload, dependencies) ==
    [task_id |-> task_id, release_time |-> release_time, deadline |-> deadline,
     workload |-> workload, dependencies |-> dependencies]

\* ScheduleEntry with the two times exchanged
ScheduleEntrySwapped(task_id, start_time, end_time, frequency) ==
    [task_id |-> task_id, start_time |-> end_time, end_time |-> start_time,
     frequency |-> frequency]

ScheduleEntry(task_id, start_time, end_time, frequency) ==
    [task_id |-> task_id, start_time |-> start_time, end_time |-> end_time,
     frequency |-> frequency]

\* the row of the list widget for a task: the values its text is made of
ListRow(task_id, release_time, deadline, workload) ==
    <<task_id, release_time, deadline, workload>>

\* the rows of the list widget for a registry
ListRows(ts) ==
    [i \in 1 .. Len(ts) |->
        ListRow(ts[i].task_id, ts[i].release_time, ts[i].deadline, ts[i].workload)]

---------------------------------------------------------------------------
(* Bounds of the model and the task sets a run is started on.              *)

MaxTasks == 2

TaskIds == 1 .. MaxTasks

\* <<release_time, deadline - release_time, workload>> of the tasks of a run:
\* feasible at a constant frequency, infeasible, with a deadline off the dt
\* grid, below f_min, released late, released one quantum before the
\* horizon, with a negative workload (load_tasks appends a file's rows
\* unvalidated), and released past the horizon with a workload of exactly
\* 1e-6.
TaskShapes ==
    { <<Q(0, 1), Q(4, 1), Q(8, 1)>>,
      <<Q(0, 1), Q(2, 1), Q(20, 1)>>,
      <<Q(0, 1), Q(5, 2), Q(5, 1)>>,
      <<Q(0, 1), Q(4, 1), Q(1, 1)>>,
      <<Q(1, 1), Q(3, 1), Q(8, 1)>>,
      <<Q(5, 1), Q(1, 1), Q(1, 1)>>,
      <<Q(Horizon - 1, 1), Q(1, 1), Q(5, 1)>>,
      <<Q(0, 1), Q(1, 1), Q(-1, 1)>>,
      <<Q(Horizon + 1, 1), Q(1, 1), Q(1, EpsDen)>> }

\* the dependency lists: none, or one task id (the task's own id and ids of
\* no task of the list included)
DependencyLists == {{}} \cup {{j} : j \in TaskIds}

\* A registry of n tasks with ids 1..n in list order.
TaskList(n, shape, deps) ==
    [i \in 1 .. n |->
        Task(i, shape[i][1], RAdd(shape[i][1], shape[i][2]), shape[i][3], deps[i])]

---------------------------------------------------------------------------
(* schedule_tasks: the pure parts of one loop iteration.                   *)

\* Ready without the dependency test
ReadyIgnoringDependencies(task, time, ts) ==
    /\ RLe(task.release_time, time)
    /\ RLt(Zero, task.workload)

\* Ready with a dependency id that names no task of the run never satisfied
ReadyMissingDependencyBlocks(task, time, ts) ==
    /\ RLe(task.release_time, time)
    /\ RLt(Zero, task.workload)
    /\ \A d \in task.dependencies :
          \E j \in 1 .. Len(ts) : ts[j].task_id = d /\ RLe(ts[j].workload, Eps)

\* the condition of the ready_tasks comprehension for one task
Ready(task, time, ts) ==
    /\ RLe(task.release_time, time)
    /\ RLt(Zero, task.workload)
    /\ \A j \in 1 .. Len(ts) :
          ts[j].task_id \in task.dependencies => RLe(ts[j].workload, Eps)

\* ready_tasks, as the set of list positions of the ready tasks
ReadyTasks(time, ts) == {i \in 1 .. Len(ts) : Ready(ts[i], time, ts)}

\* SelectedTask with max in place of min
SelectedTaskLatestDeadline(ready, ts) ==
    CHOOSE i \in ready :
        \A j \in ready :
            \/ RLt(ts[j].deadline, ts[i].deadline)
            \/ (ts[i].deadline = ts[j].deadline /\ i <= j)

\* SelectedTask with the last of the tasks of minimal deadline
SelectedTaskLastOfTies(ready, ts) ==
    CHOOSE i \in ready :
        \A j \in ready :
            \/ RLt(ts[i].deadline, ts[j].deadline)
            \/ (ts[i].deadline = ts[j].deadline /\ i >= j)

\* min(ready_tasks, key=deadline): the first position of minimal deadline
SelectedTask(ready, ts) ==
    CHOOSE i \in ready :
        \A j \in ready :
            \/ RLt(ts[i].deadline, ts[j].deadline)
            \/ (ts[i].deadline = ts[j].deadline /\ i <= j)

Slack(task, time) == RSub(task.deadline, time)

\* Frequency without the cap at f_max
FrequencyUncapped(workload, slack) ==
    IF RLt(Zero, slack)
    THEN RMax(RDiv(workload, slack), f_min)
    ELSE f_max

\* f_current
Frequency(workload, slack) ==
    IF RLt(Zero, slack)
    THEN RMin(RMax(RDiv(workload, slack), f_min), f_max)
    ELSE f_max

\* ActualDt that always takes the full quantum
ActualDtFullQuantum(f_current, workload) == dt

\* actual_dt
ActualDt(f_current, workload) ==
    IF RLe(RMul(f_current, dt), workload) THEN dt ELSE RDiv(workload, f_current)

\* WorkDone without the min
WorkDoneUncapped(f_current, workload) == RMul(f_current, dt)

\* work_done after the min
WorkDone(f_current, workload) == RMin(RMul(f_current, dt), workload)

\* EnergyCost at f_max whatever the frequency of the slice
EnergyCostAtFmax(f_current, actual_dt) == RMul(RPow(f_max, alpha), actual_dt)

\* the energy of one slice
EnergyCost(f_current, actual_dt) == RMul(RPow(f_current, alpha), actual_dt)

\* Future with >= in place of > on the release time
FutureIncludingNow(time, ts) ==
    {ts[i].release_time : i \in {k \in 1 .. Len(ts) :
        RLt(Zero, ts[k].workload) /\ RLe(time, ts[k].release_time)}}

\* the release times scanned when no task is ready
Future(time, ts) ==
    {ts[i].release_time : i \in {k \in 1 .. Len(ts) :
        RLt(Zero, ts[k].workload) /\ RLt(time, ts[k].release_time)}}

\* MinOf with max in place of min
MaxOf(S) == CHOOSE x \in S : \A y \in S : RLe(y, x)

\* min(future)
MinOf(S) == CHOOSE x \in S : \A y \in S : RLe(x, y)

\* Report with 0 in place of 1e-6
ReportExactZero(ts) ==
    IF \A i \in 1 .. Len(ts) : RLe(ts[i].workload, Zero)
    THEN "completed" ELSE "missed"

\* the first line of the report
Report(ts) ==
    IF \A i \in 1 .. Len(ts) : RLe(ts[i].workload, Eps)
    THEN "completed" ELSE "missed"

\* RegistryAfterSlice for a run that works on the registry's own Task objects
RegistrySharedWithRun(reg, copy) == copy

\* self.tasks after a slice has lowered a workload in tasks_copy: the copy
\* is a deep copy, its Task objects are not those of the registry
RegistryAfterSlice(reg, copy) == reg

\* LoopCondition with <= in place of <
LoopConditionInclusive(time) == RLe(time, horizon)

\* the condition of the while loop
LoopCondition(time) == RLt(time, horizon)

---------------------------------------------------------------------------
(* The state machine.                                                      *)

\* before run_simulation has opened a window: a controller as constructed
\* (lines 30-33, the delay left out), no energy data, no colours, no timer
NoWindow ==
    [open |-> FALSE, playing |-> FALSE, position |-> 0,
     cumulative_energy |-> <<>>, colors |-> {}, after_pending |-> FALSE,
     exception |-> "none"]

Init ==
    /\ \E n \in 0 .. MaxTasks :
          \E shape \in [1 .. n -> TaskShapes], deps \in [1 .. n -> DependencyLists] :
              /\ tasks = TaskList(n, shape, deps)
              /\ tasks_listbox = ListRows(tasks)
              /\ task_counter = n + 1
    /\ message = "none"
    /\ previous_run = <<>>
    /\ sim_window = NoWindow
    /\ tasks_copy = <<>>
    /\ schedule = <<>>
    /\ t = Zero
    /\ E = Zero
    /\ result = "none"
    /\ pc = "idle"

\* schedule_tasks on an empty registry: the warning, and nothing changes
ScheduleTasksNoTasks ==
    /\ pc \in {"idle", "done"}
    /\ tasks = <<>>
    /\ message' = "No Tasks"
    /\ UNCHANGED <<registry, run, sim_window>>

\* schedule_tasks up to the while loop
ScheduleTasksStart ==
    /\ pc \in {"idle", "done"}
    /\ tasks # <<>>
    /\ t' = Zero
    /\ E' = Zero
    /\ schedule' = <<>>
    /\ tasks_copy' = tasks
    /\ result' = "none"
    /\ pc' = "loop"
    /\ message' = "none"
    /\ UNCHANGED <<registry, previous_run, sim_window>>

\* one iteration of the while loop that runs a slice of the selected task;
\* each local of the code is bound once, to its value
ExecuteSlice ==
    /\ pc = "loop"
    /\ LoopCondition(t)
    /\ \E ready_tasks \in {ReadyTasks(t, tasks_copy)} :
        /\ ready_tasks # {}
        /\ \E i \in {SelectedTask(ready_tasks, tasks_copy)} :
           \E selected_task \in {tasks_copy[i]} :
           \E slack \in {Slack(selected_task, t)} :
           \E f_current \in {Frequency(selected_task.workload, slack)} :
           \E actual_dt \in {ActualDt(f_current, selected_task.workload)} :
           \E work_done \in {WorkDone(f_current, selected_task.workload)} :
           \E energy \in {EnergyCost(f_current, actual_dt)} :
           \E end_time \in {RAdd(t, actual_dt)} :
               /\ tasks_copy' = [tasks_copy EXCEPT ![i].workload = RSub(@, work_done)]
               /\ E' = RAdd(E, energy)
               /\ schedule' = Append(schedule,
                      ScheduleEntry(selected_task.task_id, t, end_time, f_current))
               /\ t' = end_time
               /\ tasks' = RegistryAfterSlice(tasks, tasks_copy')
    /\ UNCHANGED <<tasks_listbox, task_counter, result, pc, message, previous_run,
                   sim_window>>

\* one iteration of the while loop with no ready task and a future release
IdleAdvance ==
    /\ pc = "loop"
    /\ LoopCondition(t)
    /\ ReadyTasks(t, tasks_copy) = {}
    /\ \E future \in {Future(t, tasks_copy)} :
        /\ future # {}
        /\ t' = MinOf(future)
    /\ UNCHANGED <<registry, tasks_copy, schedule, E, result, pc, message, previous_run,
                   sim_window>>

\* the while condition fails, or the break is taken
LoopHalts ==
    \/ ~LoopCondition(t)
    \/ (ReadyTasks(t, tasks_copy) = {} /\ Future(t, tasks_copy) = {})

\* the loop is left and the report is written
FinishRun ==
    /\ pc = "loop"
    /\ LoopHalts
    /\ result' = Report(tasks_copy)
    /\ pc' = "done"
    /\ UNCHANGED <<registry, tasks_copy, schedule, t, E, message, previous_run,
                   sim_window>>

Next ==
    \/ ScheduleTasksNoTasks
    \/ ScheduleTasksStart
    \/ ExecuteSlice
    \/ IdleAdvance
    \/ FinishRun

Spec == Init /\ [][Next]_vars

\* schedule_tasks runs its loop to the end without interruption: a run that
\* can take a step takes one
RunStep == ExecuteSlice \/ IdleAdvance \/ FinishRun

FairSpec == Spec /\ WF_vars(RunStep)

---------------------------------------------------------------------------
(* Repeated runs: the same state machine, with the history variable        *)
(* previous_run recording what the run before the current one produced.    *)

\* the first schedule_tasks call
FirstRun == pc = "idle" /\ ScheduleTasksStart

\* a later schedule_tasks call up to the while loop: the same assignments,
\* the results of the run before it kept in the history variable
ScheduleTasksAgain ==
    /\ pc = "done"
    /\ tasks # <<>>
    /\ t' = Zero
    /\ E' = Zero
    /\ schedule' = <<>>
    /\ tasks_copy' = tasks
    /\ result' = "none"
    /\ pc' = "loop"
    /\ previous_run' = <<schedule, E>>
    /\ message' = "none"
    /\ UNCHANGED <<registry, sim_window>>

RerunNext ==
    \/ ScheduleTasksNoTasks
    \/ FirstRun
    \/ ScheduleTasksAgain
    \/ ExecuteSlice
    \/ IdleAdvance
    \/ FinishRun

RerunSpec == Init /\ [][RerunNext]_vars

---------------------------------------------------------------------------
(* The registry: add_task, load_tasks and delete_task.  A text that float  *)
(* parses is modelled by the value it parses to, a text that float rejects *)
(* by Garbled; a line of a file is the sequence of its comma-separated     *)
(* fields.                                                                 *)

MaxLines == 2
MaxCounter == 4

Garbled == <<>>

\* float(text) returns a value
ParsesAsFloat(text) == Len(text) = 2

\* <<release, deadline, workload>> as typed into the three entries of the
\* form: accepted (required frequency 2, 1 and 4), negative release,
\* deadline not after the release, no workload, required frequency above 4
\* and below 1, and a text that is no number
FormInputs ==
    { <<Q(0, 1), Q(4, 1), Q(8, 1)>>,
      <<Q(1, 1), Q(2, 1), Q(1, 1)>>,
      <<Q(0, 1), Q(1, 1), Q(4, 1)>>,
      <<Q(-1, 1), Q(4, 1), Q(8, 1)>>,
      <<Q(5, 1), Q(5, 1), Q(1, 1)>>,
      <<Q(0, 1), Q(4, 1), Q(0, 1)>>,
      <<Q(0, 1), Q(2, 1), Q(20, 1)>>,
      <<Q(0, 1), Q(4, 1), Q(1, 1)>>,
      <<Q(0, 1), Garbled, Q(8, 1)>> }

\* the lines of a file: a row add_task would accept, rows with a negative
\* workload and with a deadline before the release, a line of two fields
\* and a line with a field that is no number
FileLines ==
    { <<Q(0, 1), Q(4, 1), Q(8, 1)>>,
      <<Q(0, 1), Q(1, 1), Q(-1, 1)>>,
      <<Q(5, 1), Q(2, 1), Q(1, 1)>>,
      <<Q(0, 1), Q(4, 1)>>,
      <<Q(0, 1), Garbled, Q(8, 1)>> }

Files == UNION {[1 .. n -> FileLines] : n \in 0 .. MaxLines}

\* the checks of add_task on the three entries
AddTaskAccepts(input) ==
    /\ \A k \in 1 .. 3 : ParsesAsFloat(input[k])
    /\ ~RLt(input[1], Zero)
    /\ ~RLe(input[2], input[1])
    /\ ~RLe(input[3], Zero)
    /\ \E f_required \in {RDiv(input[3], RSub(input[2], input[1]))} :
          ~RLt(f_max, f_required) /\ ~RLt(f_required, f_min)

\* map(float, line.strip().split(",")) unpacks into three values
LineParses(line) == Len(line) = 3 /\ \A k \in 1 .. 3 : ParsesAsFloat(line[k])

\* the number of lines load_tasks appends: those before the first line that
\* does not parse
LinesLoaded(file) ==
    LET bad == {k \in 1 .. Len(file) : ~LineParses(file[k])}
    IN  IF bad = {} THEN Len(file)
        ELSE (CHOOSE k \in bad : \A j \in bad : k <= j) - 1

\* NextCounter that hands out the same id again
NextCounterKept(counter) == counter

\* self.task_counter += 1
NextCounter(counter) == counter + 1

\* the counter after n tasks were appended
CounterAfter[counter \in Nat, n \in Nat] ==
    IF n = 0 THEN counter ELSE NextCounter(CounterAfter[counter, n - 1])

\* del seq[index], index counted from 1
RemoveAt(seq, index) ==
    [k \in 1 .. Len(seq) - 1 |-> IF k < index THEN seq[k] ELSE seq[k + 1]]

RegistryInit ==
    /\ tasks = <<>>
    /\ tasks_listbox = <<>>
    /\ task_counter = 1
    /\ message = "none"
    /\ previous_run = <<>>
    /\ sim_window = NoWindow
    /\ tasks_copy = <<>>
    /\ schedule = <<>>
    /\ t = Zero
    /\ E = Zero
    /\ result = "none"
    /\ pc = "idle"

\* add_task: the entries are checked, and a task of the next id is appended
\* to the registry and to the list widget, or the error is shown
AddTask ==
    /\ task_counter <= MaxCounter
    /\ \E input \in FormInputs :
          IF AddTaskAccepts(input)
          THEN /\ tasks' = Append(tasks, Task(task_counter, input[1], input[2], input[3], {}))
               /\ tasks_listbox' = Append(tasks_listbox,
                                           ListRow(task_counter, input[1], input[2], input[3]))
               /\ task_counter' = NextCounter(task_counter)
               /\ message' = "none"
          ELSE /\ message' = "Input Error"
               /\ UNCHANGED registry
    /\ UNCHANGED <<run, sim_window>>

\* load_tasks on a chosen file: line after line is parsed and appended, up to
\* the first line that does not parse, where the error is shown and the
\* handler returns
LoadTasks ==
    /\ \E file \in Files :
       \E n \in {LinesLoaded(file)} :
          /\ CounterAfter[task_counter, n] <= MaxCounter + 1
          /\ tasks' = tasks \o [k \in 1 .. n |->
                          Task(CounterAfter[task_counter, k - 1],
                               file[k][1], file[k][2], file[k][3], {})]
          /\ tasks_listbox' = tasks_listbox \o [k \in 1 .. n |->
                          ListRow(CounterAfter[task_counter, k - 1],
                                  file[k][1], file[k][2], file[k][3])]
          /\ task_counter' = CounterAfter[task_counter, n]
          /\ message' = IF n < Len(file) THEN "File Error" ELSE "none"
    /\ UNCHANGED <<run, sim_window>>

\* delete_task with a row of the list widget selected (with none selected it
\* returns at once)
DeleteTask ==
    /\ \E index \in 1 .. Len(tasks_listbox) :
          /\ index <= Len(tasks)
          /\ tasks' = RemoveAt(tasks, index)
          /\ tasks_listbox' = RemoveAt(tasks_listbox, index)
    /\ message' = "none"
    /\ UNCHANGED <<task_counter, run, sim_window>>

RegistryNext == AddTask \/ LoadTasks \/ DeleteTask

RegistrySpec == RegistryInit /\ [][RegistryNext]_vars

----------------------------------------------------------------------------
(* A run after deletions: delete_task takes tasks out of the registry      *)
(* before schedule_tasks is called, so a dependency list may hold the id   *)
(* of a task that is gone.                                                 *)

DeleteBeforeRun == pc = "idle" /\ DeleteTask

DeleteRunNext ==
    \/ DeleteBeforeRun
    \/ ScheduleTasksNoTasks
    \/ ScheduleTasksStart
    \/ ExecuteSlice
    \/ IdleAdvance
    \/ FinishRun

DeleteRunSpec == Init /\ [][DeleteRunNext]_vars

----------------------------------------------------------------------------
(* The simulation window.  run_simulation opens a window that is not       *)
(* modal: the buttons of the main window stay active, and every handler    *)
(* (of either window, and the timer's) runs to its end before the next one *)
(* starts.  The callbacks read self.schedule at the time they run, and     *)
(* colors and cumulative_energy as computed when the window was opened.    *)
(* One window is modelled; the delay of the controller and the drawing are *)
(* left out.  A callback that raises is ended by the exception, which the  *)
(* event loop reports; the application goes on.                            *)

\* the exponent of the energy data of the window
plot_alpha == 2

\* no handler is in the middle of schedule_tasks
BetweenHandlers == pc # "loop"

\* cumulative_energy: the running sums of frequency ** 2.0 x duration
CumulativeEnergy(entries) ==
    LET sum[k \in 0 .. Len(entries)] ==
            IF k = 0 THEN Zero
            ELSE RAdd(sum[k - 1],
                      RMul(RPow(entries[k].frequency, plot_alpha),
                           RSub(entries[k].end_time, entries[k].start_time)))
    IN  [k \in 1 .. Len(entries) |-> sum[k]]

\* the keys of colors
Colors(entries) == {entries[k].task_id : k \in 1 .. Len(entries)}

\* the exception raised while the entry at the position is drawn, "none"
\* when it is drawn: colors[entry.task_id], then for a position above 0
\* cumulative_energy[position - 1] and cumulative_energy[position]
DrawEntryRaises(w) ==
    IF schedule[w.position + 1].task_id \notin w.colors THEN "KeyError"
    ELSE IF w.position > 0 /\ w.position >= Len(w.cumulative_energy) THEN "IndexError"
    ELSE "none"

\* the exception raised while step_backward redraws the entries below the
\* position: self.schedule[i] and colors[...] for i = 0, 1, ..., then the
\* energy line, whose two lists must have the same length
RedrawRaises(w, position) ==
    LET bad == {i \in 0 .. position - 1 :
                    i >= Len(schedule) \/ schedule[i + 1].task_id \notin w.colors}
    IN  IF bad # {}
        THEN (IF (CHOOSE i \in bad : \A j \in bad : i <= j) >= Len(schedule)
              THEN "IndexError" ELSE "KeyError")
        ELSE IF position > Len(w.cumulative_energy) THEN "ValueError"
        ELSE "none"

\* run_simulation with no schedule: the warning
RunSimulationNoSchedule ==
    /\ BetweenHandlers
    /\ schedule = <<>>
    /\ message' = "No Schedule"
    /\ UNCHANGED <<registry, run, sim_window>>

\* run_simulation: the window is opened, the data of the plot is computed
\* from the schedule, and the first update_plot call arms the timer
RunSimulation ==
    /\ BetweenHandlers
    /\ schedule # <<>>
    /\ ~sim_window.open
    /\ sim_window' =
          [open |-> TRUE, playing |-> FALSE, position |-> 0,
           cumulative_energy |-> CumulativeEnergy(schedule),
           colors |-> Colors(schedule), after_pending |-> TRUE,
           exception |-> "none"]
    /\ UNCHANGED <<registry, run, message>>

\* update_plot, called by the timer: while playing, the entry at the
\* position is drawn and the position moves on; the timer is armed again
\* at the end of the call
update_plot ==
    /\ BetweenHandlers
    /\ sim_window.open
    /\ sim_window.after_pending
    /\ sim_window' =
          IF sim_window.position < Len(schedule) /\ sim_window.playing
          THEN IF DrawEntryRaises(sim_window) = "none"
               THEN [sim_window EXCEPT !.position = @ + 1, !.exception = "none"]
               ELSE [sim_window EXCEPT !.exception = DrawEntryRaises(sim_window),
                                       !.after_pending = FALSE]
          ELSE [sim_window EXCEPT !.exception = "none"]
    /\ UNCHANGED <<registry, run, message>>

\* the Step Forward button
step_forward ==
    /\ BetweenHandlers
    /\ sim_window.open
    /\ sim_window' =
          IF sim_window.position < Len(schedule)
          THEN IF DrawEntryRaises(sim_window) = "none"
               THEN [sim_window EXCEPT !.position = @ + 1, !.exception = "none"]
               ELSE [sim_window EXCEPT !.exception = DrawEntryRaises(sim_window)]
          ELSE [sim_window EXCEPT !.exception = "none"]
    /\ UNCHANGED <<registry, run, message>>

\* the Step Backward button: the position is lowered first, then the
\* entries below it are drawn again
step_backward ==
    /\ BetweenHandlers
    /\ sim_window.open
    /\ sim_window' =
          IF sim_window.position > 0
          THEN [sim_window EXCEPT
                   !.position = @ - 1,
                   !.exception = RedrawRaises(sim_window, sim_window.position - 1)]
          ELSE [sim_window EXCEPT !.exception = "none"]
    /\ UNCHANGED <<registry, run, message>>

\* the Play / Pause button
toggle_play_pause ==
    /\ BetweenHandlers
    /\ sim_window.open
    /\ sim_window' = [sim_window EXCEPT !.playing = ~@, !.exception = "none"]
    /\ UNCHANGED <<registry, run, message>>

\* the Reset button
reset ==
    /\ BetweenHandlers
    /\ sim_window.open
    /\ sim_window' = [sim_window EXCEPT !.position = 0, !.playing = FALSE,
                                        !.exception = "none"]
    /\ UNCHANGED <<registry, run, message>>

\* add_task and delete_task before the window is opened (the claim's
\* interleaving has no change of the registry while it is open), the
\* registry kept to MaxTasks ids
AddTaskBeforeWindow ==
    /\ BetweenHandlers
    /\ ~sim_window.open
    /\ task_counter <= MaxTasks
    /\ AddTask

DeleteTaskBeforeWindow ==
    /\ BetweenHandlers
    /\ ~sim_window.open
    /\ DeleteTask

PlaybackNext ==
    \/ AddTaskBeforeWindow
    \/ DeleteTaskBeforeWindow
    \/ ScheduleTasksNoTasks
    \/ ScheduleTasksStart
    \/ ExecuteSlice
    \/ IdleAdvance
    \/ FinishRun
    \/ RunSimulationNoSchedule
    \/ RunSimulation
    \/ update_plot
    \/ step_forward
    \/ step_backward
    \/ toggle_play_pause
    \/ reset

\* the application from its start
PlaybackSpec == RegistryInit /\ [][PlaybackNext]_vars

---------------------------------------------------------------------------
(* Vocabulary of the properties: a slice step is a step of a run that      *)
(* appends a schedule entry; the properties read the tasks of the run      *)
(* before the step and the entry after it.                                 *)

SliceStep == pc = "loop" /\ pc' = "loop" /\ Len(schedule') = Len(schedule) + 1

NewEntry == schedule'[Len(schedule')]

\* the list position of the task of the run with this id
PositionOf(id) == CHOOSE i \in 1 .. Len(tasks_copy) : tasks_copy[i].task_id = id

Released(i, time) == RLe(tasks_copy[i].release_time, time)

HasWork(i) == RLt(Zero, tasks_copy[i].workload)

DependenciesComplete(i) ==
    \A j \in 1 .. Len(tasks_copy) :
        tasks_copy[j].task_id \in tasks_copy[i].dependencies
            => RLe(tasks_copy[j].workload, Eps)

IsReadyAt(i, time) == Released(i, time) /\ HasWork(i) /\ DependenciesComplete(i)

Duration(e) == RSub(e.end_time, e.start_time)

---------------------------------------------------------------------------
(* C1: every schedule entry starts at the clock of its step and runs a     *)
(* ready task whose deadline is the minimum over the tasks ready at that   *)
(* start: no ready task has a strictly smaller deadline.                   *)
C1_EarliestDeadlineFirst ==
    [][SliceStep =>
        LET sel == PositionOf(NewEntry.task_id)
        IN  /\ NewEntry.start_time = t
            /\ IsReadyAt(sel, t)
            /\ \A j \in 1 .. Len(tasks_copy) :
                  IsReadyAt(j, t) =>
                      RLe(tasks_copy[sel].deadline, tasks_copy[j].deadline)]_vars

\* two tasks ready at 0, and the second of the list, of the strictly smaller
\* deadline, ran the first slice
C1_Witness ==
    /\ Len(tasks) = 2
    /\ \A i \in 1 .. 2 : tasks[i].release_time = Zero /\ tasks[i].dependencies = {}
    /\ RLt(tasks[2].deadline, tasks[1].deadline)
    /\ Len(schedule) >= 1
    /\ schedule[1].task_id = 2
    /\ schedule[1].start_time = Zero

(* C2: every schedule entry of a task T starts at or after T.release_time, *)
(* with T's remaining workload > 0 and every task whose id is in           *)
(* T.dependencies at remaining workload <= 1e-6 at that start.             *)
C2_ReadinessGate ==
    [][SliceStep =>
        LET sel == PositionOf(NewEntry.task_id)
        IN  /\ RLe(tasks_copy[sel].release_time, NewEntry.start_time)
            /\ RLt(Zero, tasks_copy[sel].workload)
            /\ \A j \in 1 .. Len(tasks_copy) :
                  tasks_copy[j].task_id \in tasks_copy[sel].dependencies
                      => RLe(tasks_copy[j].workload, Eps)]_vars

\* task 2 depends on task 1 and has the earliest deadline of the two, both
\* released at 0: task 1 ran first, task 2 ran only after task 1 was complete
C2_Witness ==
    /\ Len(tasks) = 2
    /\ tasks[2].dependencies = {1}
    /\ tasks[1].dependencies = {}
    /\ tasks[1].release_time = Zero /\ tasks[2].release_time = Zero
    /\ RLt(tasks[2].deadline, tasks[1].deadline)
    /\ Len(schedule) >= 2
    /\ schedule[1].task_id = 1
    /\ schedule[Len(schedule)].task_id = 2
    /\ tasks_copy[1].workload = Zero

(* C3 (the claim as stated): if the run reports 'All tasks completed', no  *)
(* schedule entry of any task ends after that task's deadline.             *)
C3_CompletedMeansDeadlinesMet ==
    result = "completed" =>
        \A k \in 1 .. Len(schedule) :
            RLe(schedule[k].end_time, tasks_copy[PositionOf(schedule[k].task_id)].deadline)

\* a single task whose required frequency exceeds f_max
InfeasibleSingleTask ==
    /\ Len(tasks) = 1
    /\ RLt(RMul(f_max, RSub(tasks[1].deadline, tasks[1].release_time)), tasks[1].workload)

(* C4 (the claim as stated): a single task whose required frequency        *)
(* exceeds f_max runs at f_max in full-dt slices until its deadline        *)
(* passes, and the run is reported as 'missed deadlines' with residual     *)
(* workload > 0.                                                           *)
C4_InfeasibleReportedMissed ==
    (pc = "done" /\ InfeasibleSingleTask) =>
        /\ \A k \in 1 .. Len(schedule) :
              RLt(schedule[k].start_time, tasks[1].deadline) =>
                  schedule[k].frequency = f_max /\ Duration(schedule[k]) = dt
        /\ result = "missed"
        /\ RLt(Zero, tasks_copy[1].workload)

\* a single task without dependencies, released at 0, whose required
\* frequency workload/deadline lies in [f_min, f_max]
FeasibleSingleTask ==
    /\ Len(tasks) = 1
    /\ tasks[1].dependencies = {}
    /\ tasks[1].release_time = Zero
    /\ RLe(RMul(f_min, tasks[1].deadline), tasks[1].workload)
    /\ RLe(tasks[1].workload, RMul(f_max, tasks[1].deadline))

RequiredFrequency == RDiv(tasks[1].workload, tasks[1].deadline)

\* the least integer >= x, for x >= 0
Ceiling(x) == (x[1] + x[2] - 1) \div x[2]

(* C5 (the claim as stated): such a task produces exactly one entry,       *)
(* covering [0, deadline] at frequency workload/deadline, with total       *)
(* energy frequency^alpha x deadline, and the run is reported completed.   *)
C5_OneEntry ==
    (pc = "done" /\ FeasibleSingleTask) =>
        /\ schedule = <<ScheduleEntry(tasks[1].task_id, Zero, tasks[1].deadline,
                                      RequiredFrequency)>>
        /\ E = RMul(RPow(RequiredFrequency, alpha), tasks[1].deadline)
        /\ result = "completed"

(* C5 (amended): such a task produces ceil(deadline/dt) entries, the k-th  *)
(* covering [(k-1) dt, min(k dt, deadline)], every one at frequency        *)
(* workload/deadline, with total energy frequency^alpha x deadline, and    *)
(* the run is reported completed.                                          *)
C5_QuantumEntries ==
    (pc = "done" /\ FeasibleSingleTask) =>
        /\ Len(schedule) = Ceiling(RDiv(tasks[1].deadline, dt))
        /\ \A k \in 1 .. Len(schedule) :
              schedule[k] = ScheduleEntry(tasks[1].task_id,
                                RMul(Q(k - 1, 1), dt),
                                RMin(RMul(Q(k, 1), dt), tasks[1].deadline),
                                RequiredFrequency)
        /\ E = RMul(RPow(RequiredFrequency, alpha), tasks[1].deadline)
        /\ result = "completed"

\* the run of such a task is over, with several entries and a last one
\* shorter than dt (a deadline off the dt grid)
C5_Witness ==
    /\ pc = "done"
    /\ FeasibleSingleTask
    /\ Len(schedule) > 1
    /\ RLt(Duration(schedule[Len(schedule)]), dt)

\* the ready tasks of minimal deadline
EarliestReady(time) ==
    {i \in 1 .. Len(tasks_copy) :
        /\ IsReadyAt(i, time)
        /\ \A j \in 1 .. Len(tasks_copy) :
              IsReadyAt(j, time) => RLe(tasks_copy[i].deadline, tasks_copy[j].deadline)}

(* C6: when several ready tasks share the minimum deadline at a decision   *)
(* point, the slice runs the one that is first in the task list, which is  *)
(* the one of lowest task_id: the choice is a function of the state.       *)
C6_TieBreakFirstInList ==
    [][SliceStep =>
        LET sel == PositionOf(NewEntry.task_id)
        IN  /\ sel \in EarliestReady(t)
            /\ \A j \in EarliestReady(t) :
                  sel <= j /\ tasks_copy[sel].task_id <= tasks_copy[j].task_id]_vars

\* two tasks of equal deadline and different shape, both ready at 0: the
\* first of the list ran the first slice
C6_Witness ==
    /\ Len(tasks) = 2
    /\ \A i \in 1 .. 2 : tasks[i].release_time = Zero /\ tasks[i].dependencies = {}
    /\ tasks[1].deadline = tasks[2].deadline
    /\ tasks[1].workload # tasks[2].workload
    /\ Len(schedule) >= 1
    /\ schedule[1].task_id = 1
    /\ schedule[1].start_time = Zero

\* x limited to [lo, hi]
Clamp(x, lo, hi) == IF RLt(x, lo) THEN lo ELSE IF RLt(hi, x) THEN hi ELSE x

(* C7: every schedule entry's frequency is clamp(w / (deadline - start),   *)
(* f_min, f_max) when deadline - start > 0 and f_max otherwise, w being    *)
(* the task's remaining workload at the start; so it lies in               *)
(* [f_min, f_max], also for a tardy task.                                  *)
C7_FrequencyRule ==
    [][SliceStep =>
        LET sel == PositionOf(NewEntry.task_id)
            w == tasks_copy[sel].workload
            room == RSub(tasks_copy[sel].deadline, NewEntry.start_time)
        IN  /\ NewEntry.frequency =
                  IF RLt(Zero, room) THEN Clamp(RDiv(w, room), f_min, f_max) ELSE f_max
            /\ RLe(f_min, NewEntry.frequency)
            /\ RLe(NewEntry.frequency, f_max)]_vars

\* a schedule with an entry started at or after its task's deadline, run at
\* f_max, and an entry started before its task's deadline, held at f_min
C7_Witness ==
    /\ \E k \in 1 .. Len(schedule) :
          /\ RLe(tasks_copy[PositionOf(schedule[k].task_id)].deadline, schedule[k].start_time)
          /\ schedule[k].frequency = f_max
    /\ \E k \in 1 .. Len(schedule) :
          /\ schedule[k].frequency = f_min
          /\ RLt(schedule[k].start_time, tasks_copy[PositionOf(schedule[k].task_id)].deadline)

(* C8: every schedule entry lasts exactly dt when frequency x dt <= the    *)
(* task's remaining workload at the start, and remaining workload /        *)
(* frequency otherwise, and then the task's workload becomes 0; so         *)
(* 0 < end_time - start_time <= dt and a shorter slice completes its task. *)
C8_SliceDuration ==
    [][SliceStep =>
        LET sel == PositionOf(NewEntry.task_id)
            w == tasks_copy[sel].workload
            f == NewEntry.frequency
        IN  /\ IF RLe(RMul(f, dt), w)
               THEN Duration(NewEntry) = dt
               ELSE /\ Duration(NewEntry) = RDiv(w, f)
                    /\ tasks_copy'[sel].workload = Zero
            /\ RLt(Zero, Duration(NewEntry))
            /\ RLe(Duration(NewEntry), dt)
            /\ RLt(Duration(NewEntry), dt) => tasks_copy'[sel].workload = Zero]_vars

\* a schedule with a full slice that left work and a last slice shorter than
\* dt that completed its task
C8_Witness ==
    /\ Len(schedule) >= 2
    /\ Duration(schedule[1]) = dt
    /\ RLt(Duration(schedule[Len(schedule)]), dt)
    /\ tasks_copy[PositionOf(schedule[Len(schedule)].task_id)].workload = Zero

\* the task sets add_task accepts: no negative release time, a deadline
\* after the release, a positive workload
ValidTaskSet ==
    \A i \in 1 .. Len(tasks) :
        /\ RLe(Zero, tasks[i].release_time)
        /\ RLt(tasks[i].release_time, tasks[i].deadline)
        /\ RLt(Zero, tasks[i].workload)

C10_RunHalts ==
    /\ (pc = "loop") ~> (pc = "done")
    /\ [][pc = "loop" => (RLt(t, t') \/ pc' = "done")]_vars

\* a run is over on a task set with a dependency cycle between two tasks of
\* which one is released just before the horizon: nothing ran, work remains
C10_Witness ==
    /\ pc = "done"
    /\ Len(tasks) = 2
    /\ tasks[1].dependencies = {2}
    /\ tasks[2].dependencies = {1}
    /\ tasks[2].release_time = Q(Horizon - 1, 1)
    /\ schedule = <<>>
    /\ result = "missed"

\* the release times of the incomplete tasks of the run released after time
PendingReleases(time) ==
    {tasks_copy[i].release_time : i \in {k \in 1 .. Len(tasks_copy) :
        HasWork(k) /\ RLt(time, tasks_copy[k].release_time)}}

NoTaskReady(time) == \A i \in 1 .. Len(tasks_copy) : ~IsReadyAt(i, time)

(* C11: a loop iteration with no task ready at the clock t and some         *)
(* incomplete task released after t sets the clock to exactly the minimum  *)
(* such release time and changes nothing else (no entry, no energy, no     *)
(* workload); so the entries of a lone valid task without dependencies     *)
(* start at its release time, never inside the idle gap before it.         *)
C11_IdleJump ==
    /\ [][(pc = "loop" /\ RLt(t, horizon) /\ NoTaskReady(t) /\ PendingReleases(t) # {}) =>
            /\ t' \in PendingReleases(t)
            /\ \A x \in PendingReleases(t) : RLe(t', x)
            /\ UNCHANGED <<tasks, tasks_copy, schedule, E, result, pc>>]_vars
    /\ []((Len(tasks) = 1 /\ ValidTaskSet /\ schedule # <<>>) =>
            schedule[1].start_time = tasks[1].release_time)

\* two tasks released at different times after 0: the clock jumped from 0 to
\* the earlier release, where the first entry starts
C11_Witness ==
    /\ Len(tasks) = 2
    /\ RLt(Zero, tasks[1].release_time)
    /\ RLt(tasks[1].release_time, tasks[2].release_time)
    /\ Len(schedule) >= 1
    /\ schedule[1].start_time = tasks[1].release_time
    /\ schedule[1].task_id = 1

\* every task of the run has at most 1e-6 of its workload left
AllWithinEps == \A i \in 1 .. Len(tasks_copy) : RLe(tasks_copy[i].workload, Eps)

(* C12: the run reports 'All tasks completed' exactly when every task's    *)
(* remaining workload is <= 1e-6 when the loop halts; and a loop iteration *)
(* with no task ready and no incomplete task released later leaves the     *)
(* loop at once, running nothing, and with more than 1e-6 of some workload *)
(* left the report is 'Some tasks missed deadlines'.                       *)
C12_ReportByResidue ==
    /\ [](pc = "done" => (result = "completed" <=> AllWithinEps))
    /\ [](pc = "done" => result \in {"completed", "missed"})
    /\ [][(pc = "loop" /\ RLt(t, horizon) /\ NoTaskReady(t) /\ PendingReleases(t) = {}) =>
            /\ pc' = "done"
            /\ UNCHANGED <<tasks, tasks_copy, schedule, t, E>>
            /\ ~AllWithinEps => result' = "missed"]_vars

\* a run ended before the horizon with one task complete and the other, which
\* depends on itself, never run: reported as missed
C12_Witness ==
    /\ pc = "done"
    /\ RLt(t, horizon)
    /\ Len(tasks) = 2
    /\ tasks[2].dependencies = {2}
    /\ tasks_copy[2].workload = tasks[2].workload
    /\ RLt(Eps, tasks_copy[2].workload)
    /\ tasks_copy[1].workload = Zero
    /\ schedule # <<>>
    /\ result = "missed"

(* C13: no schedule entry starts at or after the horizon: once the clock   *)
(* has reached or passed the horizon, by a slice or by an idle jump, the   *)
(* loop is left with nothing more executed, and with more than 1e-6 of     *)
(* some workload left the report is 'Some tasks missed deadlines'.         *)
C13_HorizonStopsRun ==
    /\ [](\A k \in 1 .. Len(schedule) : RLt(schedule[k].start_time, horizon))
    /\ [][(pc = "loop" /\ RLe(horizon, t)) =>
            /\ pc' = "done"
            /\ UNCHANGED <<tasks, tasks_copy, schedule, t, E>>
            /\ ~AllWithinEps => result' = "missed"]_vars

\* a run is over whose last slice ended at the horizon and left its task,
\* still ready, with work to do: reported as missed
C13_Witness ==
    /\ pc = "done"
    /\ t = horizon
    /\ schedule # <<>>
    /\ schedule[Len(schedule)].end_time = horizon
    /\ IsReadyAt(PositionOf(schedule[Len(schedule)].task_id), t)
    /\ ~AllWithinEps
    /\ result = "missed"

\* a run is over whose clock jumped from before the horizon to a release
\* past it: the task released there never ran, another task has work left
C13_IdleJumpToHorizon ==
    /\ pc = "done"
    /\ RLt(horizon, t)
    /\ \A k \in 1 .. Len(schedule) : RLt(schedule[k].end_time, horizon)
    /\ \E i \in 1 .. Len(tasks_copy) :
          tasks_copy[i].release_time = t /\ IsReadyAt(i, t)
    /\ ~AllWithinEps
    /\ result = "missed"

(* C14: the schedule is an append-only, time-ordered, non-overlapping log: *)
(* every entry has end_time >= start_time, of two consecutive entries the  *)
(* earlier one's end_time is <= the later one's start_time, the first      *)
(* entry starts at or after 0, and a step of a run leaves the schedule as  *)
(* it is or appends one entry to it.                                       *)
C14_ScheduleIsOrderedLog ==
    /\ [](\A k \in 1 .. Len(schedule) : RLe(schedule[k].start_time, schedule[k].end_time))
    /\ [](\A k \in 1 .. Len(schedule) - 1 :
              RLe(schedule[k].end_time, schedule[k + 1].start_time))
    /\ [](schedule # <<>> => RLe(Zero, schedule[1].start_time))
    /\ [][pc = "loop" =>
            \/ schedule' = schedule
            \/ /\ Len(schedule') = Len(schedule) + 1
               /\ SubSeq(schedule', 1, Len(schedule)) = schedule]_vars

\* a schedule with two entries that abut and two entries with an idle gap
\* between them
C14_Witness ==
    /\ Len(schedule) >= 3
    /\ \E k \in 1 .. Len(schedule) - 1 : schedule[k].end_time = schedule[k + 1].start_time
    /\ \E k \in 1 .. Len(schedule) - 1 :
          /\ RLt(schedule[k].end_time, schedule[k + 1].start_time)
          /\ schedule[k].task_id # schedule[k + 1].task_id

\* the sum over the entries of a schedule of frequency^alpha x duration
EnergyOfEntries(entries) ==
    LET sum[k \in 0 .. Len(entries)] ==
            IF k = 0 THEN Zero
            ELSE RAdd(sum[k - 1],
                      RMul(RPow(entries[k].frequency, alpha), Duration(entries[k])))
    IN  sum[Len(entries)]

(* C15: at every point of a run the accumulated energy E equals the sum    *)
(* over the schedule entries recorded so far of frequency^alpha x          *)
(* (end_time - start_time), each entry at its own frequency; E is 0 when   *)
(* the run starts and never decreases during it.                           *)
C15_EnergyIsSumOfEntries ==
    /\ [](E = EnergyOfEntries(schedule))
    /\ [][(pc # "loop" /\ pc' = "loop") => E' = Zero]_vars
    /\ [][pc = "loop" => RLe(E, E')]_vars

\* a schedule with entries at two different frequencies, one of them below
\* f_max, and an entry shorter than dt
C15_Witness ==
    /\ Len(schedule) >= 2
    /\ \E j, k \in 1 .. Len(schedule) :
          /\ schedule[j].frequency # schedule[k].frequency
          /\ RLt(schedule[j].frequency, f_max)
    /\ \E k \in 1 .. Len(schedule) : RLt(Duration(schedule[k]), dt)
    /\ RLt(Zero, E)

(* C16: a run works on a private copy of the tasks: no step of a run       *)
(* changes a task of the registry, so a schedule_tasks run that follows    *)
(* another with no edit in between ends with the same schedule and the     *)
(* same total energy as the run before it.                                 *)
C16_RunsRepeat ==
    /\ [][tasks' = tasks]_vars
    /\ []((pc = "done" /\ previous_run # <<>>) => <<schedule, E>> = previous_run)

\* a second run is over, with several entries; it has used up a workload in
\* its copy that the registry still holds in full
C16_Witness ==
    /\ pc = "done"
    /\ previous_run # <<>>
    /\ Len(schedule) >= 2
    /\ RLt(Zero, E)
    /\ \E i \in 1 .. Len(tasks) :
          /\ tasks_copy[i].workload = Zero
          /\ RLt(Zero, tasks[i].workload)

(* C17 (the claim as stated): load_tasks is all-or-nothing: a call in      *)
(* which a line of the file fails to parse, which is a call that shows the *)
(* 'File Error' box, leaves the registry, the list widget and task_counter *)
(* exactly as they were.                                                   *)
C17_LoadAllOrNothing ==
    [][message' = "File Error" => UNCHANGED <<tasks, tasks_listbox, task_counter>>]_vars

(* C18 (the claim as stated): after any sequence of add_task, load_tasks   *)
(* and delete_task every task in the registry has release_time >= 0,       *)
(* deadline > release_time and workload > 0.                               *)
C18_RegistryAlwaysValid ==
    \A i \in 1 .. Len(tasks) :
        /\ RLe(Zero, tasks[i].release_time)
        /\ RLt(tasks[i].release_time, tasks[i].deadline)
        /\ RLt(Zero, tasks[i].workload)

\* the tasks of a registry, as a set
TasksOf(ts) == {ts[i] : i \in 1 .. Len(ts)}

(* C20: after any sequence of add_task, load_tasks and delete_task the     *)
(* task_ids of the registry are strictly increasing in list order (so      *)
(* pairwise distinct), task_counter only grows and every task that enters  *)
(* the registry gets an id no task was given before (all ids given are     *)
(* below task_counter), and the list widget has the length and the order   *)
(* of the registry.                                                        *)
C20_IdsFollowListOrder ==
    /\ [](\A i, j \in 1 .. Len(tasks) : i < j => tasks[i].task_id < tasks[j].task_id)
    /\ [](\A i \in 1 .. Len(tasks) : tasks[i].task_id < task_counter)
    /\ [](/\ Len(tasks_listbox) = Len(tasks)
          /\ \A i \in 1 .. Len(tasks) :
                tasks_listbox[i] = <<tasks[i].task_id, tasks[i].release_time,
                                     tasks[i].deadline, tasks[i].workload>>)
    /\ [][task_counter' >= task_counter]_vars
    /\ [][\A x \in TasksOf(tasks') \ TasksOf(tasks) : x.task_id >= task_counter]_vars

\* a registry that lost a task between two others and its first task, and
\* then received a new task, whose id is the latest the counter gave
C20_Witness ==
    /\ Len(tasks) >= 2
    /\ tasks[1].task_id > 1
    /\ tasks[2].task_id > tasks[1].task_id + 1
    /\ tasks[Len(tasks)].task_id = task_counter - 1
    /\ task_counter > Len(tasks) + 1

\* the run is over with more than 1e-6 of some workload left, the loop left
\* by its condition: the clock is at or past the horizon
FailedAtHorizon == pc = "done" /\ ~AllWithinEps /\ RLe(horizon, t)

\* the run is over with more than 1e-6 of some workload left, the loop left
\* by its break: nothing ready and nothing released later
FailedByDeadlock == pc = "done" /\ ~AllWithinEps /\ RLt(t, horizon)

(* C19 (the claim as stated): the report of a failed run tells its cause.  *)
(* A run stopped at the horizon with work left is reported by the line     *)
(* 'Some tasks missed deadlines' (C13); so a run stopped by a structural   *)
(* deadlock with work left is reported by another line.                    *)
C19_FailureCauseReported ==
    /\ FailedAtHorizon => result = "missed"
    /\ FailedByDeadlock => result # "missed"

\* a run stopped at the horizon and reported as missed: the other half of
\* the pair of runs the report does not tell apart
C19_HorizonFailure == FailedAtHorizon /\ result = "missed"

----------------------------------------------------------------------------
\* the ids of the tasks of the run
RunIds == {tasks_copy[j].task_id : j \in 1 .. Len(tasks_copy)}

\* the task at position i lists an id that no task of the run has
HasMissingDependency(i) == tasks_copy[i].dependencies \ RunIds # {}

\* released, with work left, and each of its dependencies that is a task of
\* the run complete
ReadyButForMissing(i, time) ==
    /\ Released(i, time)
    /\ HasWork(i)
    /\ \A d \in tasks_copy[i].dependencies \cap RunIds :
          RLe(tasks_copy[PositionOf(d)].workload, Eps)

\* some existing dependency of the task at position i has more than 1e-6 left
BlockedByExistingTask(i) ==
    \E d \in tasks_copy[i].dependencies \cap RunIds :
        RLt(Eps, tasks_copy[PositionOf(d)].workload)

(* C21: a dependency id that matches no task of the run never blocks.  A   *)
(* loop iteration below the horizon at which some task is released, has    *)
(* work left and has every dependency that exists in the run complete      *)
(* appends an entry, starting at the clock, for a task whose deadline is   *)
(* at most that task's deadline; and when the loop is left by its break    *)
(* every task with work left is held back by a dependency that exists in   *)
(* the run and is incomplete, never by a missing one.                      *)
C21_MissingDependencyNeverBlocks ==
    /\ [][\A i \in 1 .. Len(tasks_copy) :
            (pc = "loop" /\ RLt(t, horizon) /\ ReadyButForMissing(i, t)) =>
                /\ SliceStep
                /\ schedule'[Len(schedule')].start_time = t
                /\ RLe(tasks_copy[PositionOf(schedule'[Len(schedule')].task_id)].deadline,
                       tasks_copy[i].deadline)]_vars
    /\ [](pc = "done" /\ RLt(t, horizon) =>
            \A i \in 1 .. Len(tasks_copy) : HasWork(i) => BlockedByExistingTask(i))

\* a run is over on a registry whose first task was deleted: the task left
\* depends on the deleted id alone, its first entry starts at its release
\* time and the run completed
C21_Witness ==
    /\ pc = "done"
    /\ Len(tasks_copy) = 1
    /\ tasks_copy[1].task_id = 2
    /\ tasks_copy[1].dependencies = {1}
    /\ task_counter = 3
    /\ HasMissingDependency(1)
    /\ Len(schedule) >= 1
    /\ schedule[1].task_id = 2
    /\ schedule[1].start_time = tasks_copy[1].release_time
    /\ RLt(Zero, tasks_copy[1].release_time)
    /\ result = "completed"

----------------------------------------------------------------------------
(* C22 (the claim as stated): while a simulation window is open, between   *)
(* any two handlers the playback position is at least 0 and at most the    *)
(* length of self.schedule, and a position at which a tick or Step Forward *)
(* reads self.schedule[position] and cumulative_energy[position] (one      *)
(* above 0 and below the length of the schedule, the entry's colour        *)
(* found) is an index of cumulative_energy too.                            *)
C22_PlaybackInBounds ==
    (sim_window.open /\ BetweenHandlers) =>
        /\ 0 <= sim_window.position
        /\ sim_window.position <= Len(schedule)
        /\ (/\ 0 < sim_window.position
            /\ sim_window.position < Len(schedule)
            /\ schedule[sim_window.position + 1].task_id \in sim_window.colors)
               => sim_window.position < Len(sim_window.cumulative_energy)

\* a tick read cumulative_energy past its end: the schedule was computed
\* again after the window was opened, for a registry changed since the run
\* the window shows; update_plot ended by the IndexError and the timer is
\* not armed again
C22_TickIndexError ==
    /\ sim_window.open
    /\ sim_window.exception = "IndexError"
    /\ ~sim_window.after_pending
    /\ sim_window.position < Len(schedule)
    /\ sim_window.position >= Len(sim_window.cumulative_energy)

============================================================================
